---- MODULE Spec2Model ----
(***************************************************************************)
(* slackio: a blocking byte stream over a Slack channel.                   *)
(*                                                                         *)
(* One adapter instance is modelled: a Reader, a Writer, a ReaderWriter    *)
(* (new API, built on readerWriterCommon) or a Slack (old API, built by    *)
(* New).  The state holds the adapter's fields, the io.Pipe between the    *)
(* background reader() goroutine and Read, the position of the goroutine,  *)
(* of an in-flight Read and of an in-flight Close, and the remote session  *)
(* (channel list, event stream, published messages, close calls).          *)
(***************************************************************************)
EXTENDS Integers, Sequences, FiniteSets, TLC

\* ------------------------------------------------------------------ bounds
MaxEvents == 2      \* events the remote session delivers on its own
MaxWrites == 1      \* Write calls
MaxCloses == 2      \* Close calls
MaxBuf == 1         \* largest read buffer, len(p) of Read(p)
MaxChannels == 2    \* longest channel list the server enumerates
MaxReaders == 2     \* Read calls in flight at once

\* ------------------------------------------------------- values and inputs
Nil == "nil"
EOF == "EOF"
ErrClosedPipe == "io: read/write on closed pipe"
ErrUnmarshal == "json: cannot unmarshal"
ErrPublish == "publish failed"
ErrClose == "close failed"
ErrAlreadyClosed == "use of closed connection"

NL == "\n"

Kinds == {"Reader", "Writer", "ReaderWriter", "Slack"}
HasReader(k) == k \in {"Reader", "ReaderWriter", "Slack"}
HasWriter(k) == k \in {"Writer", "ReaderWriter", "Slack"}

\* The identity the remote session knows this connection by.
ServerUser == "U1"
\* the IDs the server lists; an entry may come without one
ChannelIDs == {"C1", "C2", ""}
ChannelNames == {"general", "General"}
RequestedNames == {"general", "dev"}

ChannelEntries == [Name : ChannelNames, ID : ChannelIDs]

RECURSIVE SeqsUpTo(_, _)
SeqsUpTo(S, n) ==
    IF n = 0 THEN {<<>>}
    ELSE LET shorter == SeqsUpTo(S, n - 1)
         IN  shorter \cup {Append(s, x) : s \in {t \in shorter : Len(t) = n - 1}, x \in S}

ChannelLists == SeqsUpTo(ChannelEntries, MaxChannels)

\* auth.test replies: a body carrying user_id, a body json.Unmarshal gets no
\* user_id from, or a transport error of RunMethod.
AuthReplies == {"user_id", "no_user_id", "error"}

Texts == {<<"a">>, <<"b", "c">>}
Payloads == {<<"a">>, <<"o", "k">>}

\* An RTM event: its type, whether event.Message() parses it, and the parsed
\* message's fields.  echo marks the session's echo of this adapter's publish.
Event(t, ok, ch, u, txt, echo) ==
    [Type |-> t, ok |-> ok, Channel |-> ch, User |-> u, Text |-> txt, echo |-> echo]

\* What the session may deliver: messages of another user on either channel,
\* a message of the session's own user, a non-message event, and a "message"
\* event that event.Message() fails to parse.
InboundEvents ==
    {Event("message", TRUE, "C1", "U2", txt, FALSE) : txt \in Texts}
    \cup {Event("message", TRUE, "C2", "U2", <<"a">>, FALSE)}
    \cup {Event("message", TRUE, "C1", ServerUser, <<"a">>, FALSE)}
    \cup {Event("hello", TRUE, "", "", <<>>, FALSE)}
    \cup {Event("message", FALSE, "", "", <<>>, FALSE)}

\* The value a receive from the closed channel of broker.Events() yields.
ZeroEvent == Event("", FALSE, "", "", <<>>, FALSE)

Callers == 1..MaxReaders

\* The runs explored, each with any number of Read calls: a stream of inbound
\* events; Write calls and their echoes next to an inbound event; an inbound
\* event around repeated Close calls; Write calls around a Close; an inbound
\* event around the end of the event stream; Read calls of several callers
\* at once on a quiet session.
Plans ==
    { [events |-> MaxEvents, writes |-> 0, closes |-> 0, ends |-> FALSE, readers |-> 1],
      [events |-> 1, writes |-> MaxWrites, closes |-> 0, ends |-> FALSE, readers |-> 1],
      [events |-> 1, writes |-> 0, closes |-> MaxCloses, ends |-> FALSE, readers |-> 1],
      [events |-> 0, writes |-> MaxWrites, closes |-> 1, ends |-> FALSE, readers |-> 1],
      [events |-> 1, writes |-> 0, closes |-> 0, ends |-> TRUE, readers |-> 1],
      [events |-> 0, writes |-> 0, closes |-> 0, ends |-> FALSE, readers |-> MaxReaders] }

NoErr == [msg |-> Nil, arg |-> ""]
Err(m) == [msg |-> m, arg |-> ""]
ErrChannelNotFound(name) == [msg |-> "cannot find channel %s", arg |-> name]

VARIABLES
    plan,         \* the calls the caller and the session make in this run
    kind,         \* which adapter type the caller constructs
    Channel,      \* the channel name passed to the constructor
    channels,     \* reply of ChannelsList (a local of the constructor)
    ctor,         \* "pending", "ok", "err" or "panic"
    ctorErr,      \* error returned (or panic value raised) by the constructor
    channelID, selfUserID, broker,    \* readerWriterCommon / Slack fields
    sess,         \* the remote session behind the broker
    events,       \* events queued on broker.Events()
    delivered,    \* number of events the session delivered on its own
    consumed,     \* events the reader() goroutine has received, in order
    publishes,    \* Publish calls made, in order, with their outcome
    pipe,         \* the io.Pipe the fields hold: made, done, rerr, werr, data of
                  \* the blocked Write
    cpc,          \* reader() goroutine: "none", "recv", "write", "stopped"
    consumers,    \* number of reader() goroutines started
    writeErr,     \* the error Fprintf returned to reader(), Nil before that
    rpc, rbuf,    \* each caller's in-flight Read: "idle", "init" (in initRead,
                  \* past the nil test), "blocked"; and its len(p)
    rAtClose,     \* the in-flight Read was blocked when a Close began
    rAfterClose,  \* the in-flight Read began after a Close had returned
    readBytes,    \* bytes returned by Read calls so far
    lastRead,     \* result of the last Read that returned
    writes, lastWrite,
    closes, closeQ, closeErrs, closeRet,
    panicked      \* Nil, or where the panic that killed the process was raised

vars == <<plan, kind, Channel, channels, ctor, ctorErr, channelID, selfUserID, broker,
          sess, events, delivered, consumed, publishes, pipe, cpc, consumers, writeErr,
          rpc, rbuf, rAtClose, rAfterClose, readBytes, lastRead, writes, lastWrite,
          closes, closeQ, closeErrs, closeRet, panicked>>

NoPipe == [made |-> FALSE, done |-> FALSE, rerr |-> Nil, werr |-> Nil, data |-> <<>>]
NewPipe == [made |-> TRUE, done |-> FALSE, rerr |-> Nil, werr |-> Nil, data |-> <<>>]
NoSession ==
    [started |-> FALSE, connected |-> FALSE, closed |-> FALSE, closeCalls |-> 0,
     ended |-> FALSE]

Init ==
    /\ plan \in Plans
    /\ kind \in Kinds
    /\ Channel \in RequestedNames
    /\ channels \in ChannelLists
    /\ ctor = "pending"
    /\ ctorErr = NoErr
    /\ channelID = ""
    /\ selfUserID = ""
    /\ broker = "nil"
    /\ sess = NoSession
    /\ events = <<>>
    /\ delivered = 0
    /\ consumed = <<>>
    /\ publishes = <<>>
    /\ pipe = NoPipe
    /\ cpc = "none"
    /\ consumers = 0
    /\ writeErr = Nil
    /\ rpc = [t \in Callers |-> "idle"]
    /\ rbuf = [t \in Callers |-> 0]
    /\ rAtClose = [t \in Callers |-> FALSE]
    /\ rAfterClose = [t \in Callers |-> FALSE]
    /\ readBytes = <<>>
    /\ lastRead = [n |-> 0, err |-> Nil, atClose |-> FALSE, afterClose |-> FALSE]
    /\ writes = 0
    /\ lastWrite = [p |-> <<>>, n |-> 0, err |-> Nil]
    /\ closes = 0
    /\ closeQ = <<>>
    /\ closeErrs = <<>>
    /\ closeRet = <<>>
    /\ panicked = Nil

\* ------------------------------------------------------------ construction

\* The scan of the enumerated channels: the first entry whose name equals the
\* requested one gives the ID; "" when the list is exhausted.
\* (mutant) a scan that falls back to the first channel when none matches
FindChannelOrFirst(list, name) ==
    LET hit == {i \in 1..Len(list) : list[i].Name = name}
    IN  IF list = <<>> THEN ""
        ELSE IF hit = {} THEN list[1].ID
        ELSE list[CHOOSE i \in hit : \A j \in hit : i <= j].ID

\* (mutant) a scan that does not stop at the first match
RECURSIVE FindChannelLast(_, _)
FindChannelLast(list, name) ==
    IF list = <<>> THEN ""
    ELSE IF list[Len(list)].Name = name THEN list[Len(list)].ID
    ELSE FindChannelLast(SubSeq(list, 1, Len(list) - 1), name)

RECURSIVE FindChannel(_, _)
FindChannel(list, name) ==
    IF list = <<>> THEN ""
    ELSE IF Head(list).Name = name THEN Head(list).ID
    ELSE FindChannel(Tail(list), name)

\* json.Unmarshal(authBuf, &auth) with its error dropped: auth.UserID is the
\* user_id of the body, or stays "" when the body gives none.
AuthUserID(reply) == IF reply = "user_id" THEN ServerUser ELSE ""

Failed(e, started) ==
    [ctor |-> "err", err |-> e, channelID |-> "", selfUserID |-> "",
     broker |-> "nil", started |-> started, connected |-> FALSE]

Built(id, auth) ==
    [ctor |-> "ok", err |-> NoErr, channelID |-> id, selfUserID |-> AuthUserID(auth),
     broker |-> "set", started |-> TRUE, connected |-> TRUE]

\* newIface: every failing step returns (nil, err).
newIface(name, listOK, list, auth, rtmOK, connOK) ==
    IF ~listOK THEN Failed(Err("ChannelsList failed"), FALSE)
    ELSE IF FindChannel(list, name) = "" THEN Failed(ErrChannelNotFound(name), FALSE)
    ELSE IF auth = "error" THEN Failed(Err("auth.test failed"), FALSE)
    ELSE IF ~rtmOK THEN Failed(Err("RTMStart failed"), FALSE)
    ELSE IF ~connOK THEN Failed(Err("Connect failed"), TRUE)
    ELSE Built(FindChannel(list, name), auth)

\* New -> Slack.init: as newIface, but a failing auth.test panics.  New
\* returns nil for every error of init, so the caller holds no Slack then.
New(name, listOK, list, auth, rtmOK, connOK) ==
    IF ~listOK THEN Failed(Err("ChannelsList failed"), FALSE)
    ELSE IF FindChannel(list, name) = "" THEN Failed(ErrChannelNotFound(name), FALSE)
    ELSE IF auth = "error"
         THEN [Failed(Err("auth.test failed"), FALSE) EXCEPT !.ctor = "panic"]
    ELSE IF ~rtmOK THEN Failed(Err("RTMStart failed"), FALSE)
    ELSE IF ~connOK THEN Failed(Err("Connect failed"), TRUE)
    ELSE Built(FindChannel(list, name), auth)

\* Reader.init runs at the end of NewReader and NewReaderWriter: the pipe is
\* made and the reader() goroutine started.  Slack defers both to initRead.
EagerReader(k) == k \in {"Reader", "ReaderWriter"}

\* NewReader / NewWriter / NewReaderWriter / New, as one synchronous call.
Construct ==
    /\ ctor = "pending"
    /\ \E listOK \in BOOLEAN, auth \in AuthReplies, rtmOK \in BOOLEAN, connOK \in BOOLEAN :
         LET r == IF kind = "Slack"
                  THEN New(Channel, listOK, channels, auth, rtmOK, connOK)
                  ELSE newIface(Channel, listOK, channels, auth, rtmOK, connOK)
             up == r.ctor = "ok" /\ EagerReader(kind)
         IN  /\ ctor' = r.ctor
             /\ ctorErr' = r.err
             /\ channelID' = r.channelID
             /\ selfUserID' = r.selfUserID
             /\ broker' = r.broker
             /\ sess' = [sess EXCEPT !.started = r.started, !.connected = r.connected]
             /\ channels' = IF r.ctor = "ok" THEN <<>> ELSE channels
             /\ pipe' = IF up THEN NewPipe ELSE pipe
             /\ cpc' = IF up THEN "recv" ELSE cpc
             /\ consumers' = IF up THEN 1 ELSE consumers
             /\ panicked' = IF r.ctor = "panic" THEN "New" ELSE Nil
    /\ UNCHANGED <<plan, kind, Channel, events, delivered, consumed, publishes, writeErr,
                   rpc, rbuf, rAtClose, rAfterClose, readBytes, lastRead, writes,
                   lastWrite, closes, closeQ, closeErrs, closeRet>>

Live == ctor = "ok" /\ panicked = Nil

\* ----------------------------------------------------------------- io.Pipe

\* (mutant) a PipeReader.Close that stores its error and wakes nobody
PipeCloseReadSilent(p) ==
    [p EXCEPT !.rerr = IF @ = Nil THEN ErrClosedPipe ELSE @]

\* PipeReader.Close / PipeWriter.CloseWithError: the first error stored on a
\* side sticks, and either close wakes both sides (done).
PipeCloseRead(p) ==
    [p EXCEPT !.rerr = IF @ = Nil THEN ErrClosedPipe ELSE @, !.done = TRUE]
PipeCloseWrite(p, err) ==
    [p EXCEPT !.werr = IF @ # Nil THEN @ ELSE IF err = Nil THEN EOF ELSE err,
              !.done = TRUE]

\* What a Read, and a Write, of a closed pipe return.
ReadCloseError(p) == IF p.rerr = Nil /\ p.werr # Nil THEN p.werr ELSE ErrClosedPipe
WriteCloseError(p) == IF p.werr = Nil /\ p.rerr # Nil THEN p.rerr ELSE ErrClosedPipe

Min(a, b) == IF a < b THEN a ELSE b
Drop(s, n) == SubSeq(s, n + 1, Len(s))

\* ------------------------------------------------------------ remote session

\* The session delivers an event of its own on the stream.
Deliver(e) ==
    /\ Live
    /\ sess.connected /\ ~sess.closed /\ ~sess.ended
    /\ delivered < plan.events
    /\ events' = Append(events, e)
    /\ delivered' = delivered + 1
    /\ UNCHANGED <<plan, kind, Channel, channels, ctor, ctorErr, channelID, selfUserID,
                   broker, sess, consumed, publishes, pipe, cpc, consumers, writeErr,
                   rpc, rbuf, rAtClose, rAfterClose, readBytes, lastRead, writes,
                   lastWrite, closes, closeQ, closeErrs, closeRet, panicked>>

\* The event stream ends: the session closes the channel behind
\* broker.Events().  Events already queued stay receivable.
StreamEnds ==
    /\ Live
    /\ sess.connected /\ ~sess.ended
    /\ plan.ends
    /\ sess' = [sess EXCEPT !.ended = TRUE]
    /\ UNCHANGED <<plan, kind, Channel, channels, ctor, ctorErr, channelID, selfUserID,
                   broker, events, delivered, consumed, publishes, pipe, cpc, consumers,
                   writeErr, rpc, rbuf, rAtClose, rAfterClose, readBytes, lastRead,
                   writes, lastWrite, closes, closeQ, closeErrs, closeRet, panicked>>

\* ------------------------------------------------------- reader() goroutine

\* (mutant) the text written without its newline
LineBare(text) == text

\* fmt.Fprintf(w, "%s\n", msg.Text): one Write of the text and a newline.
Line(text) == Append(text, NL)

\* (mutant) the filter without the test of msg.User against selfUserID
AcceptedAnyUser(e) ==
    /\ e.Type = "message"
    /\ e.ok
    /\ e.Channel = channelID

\* The filter of reader(): a parsed message of the bound channel that is not
\* from selfUserID is forwarded.
Accepted(e) ==
    /\ e.Type = "message"
    /\ e.ok
    /\ e.Channel = channelID
    /\ e.User # selfUserID

\* One turn of the loop of Reader.reader / Slack.reader: receive an event and
\* filter it; an accepted one starts the pipe Write, which fails at once on a
\* closed pipe and otherwise blocks until Read calls have taken every byte.
\* A message that does not parse closes the pipe with the error and the code
\* goes on to use msg: a nil msg panics, a zero-valued msg fails the channel
\* test and the loop continues.
ReaderLoop ==
    /\ Live
    /\ cpc = "recv"
    /\ events # <<>>
    /\ LET e == Head(events)
       IN  /\ events' = Tail(events)
           /\ consumed' = Append(consumed, e)
           /\ IF e.Type # "message" THEN
                  UNCHANGED <<pipe, cpc, writeErr, panicked>>
              ELSE IF ~e.ok THEN
                  /\ pipe' = PipeCloseWrite(pipe, ErrUnmarshal)
                  /\ \E nilMsg \in BOOLEAN :
                       /\ panicked' = IF nilMsg THEN "reader" ELSE Nil
                       /\ cpc' = cpc
                  /\ UNCHANGED writeErr
              ELSE IF ~Accepted(e) THEN
                  UNCHANGED <<pipe, cpc, writeErr, panicked>>
              ELSE IF pipe.done THEN
                  /\ pipe' = PipeCloseWrite(pipe, WriteCloseError(pipe))
                  /\ writeErr' = WriteCloseError(pipe)
                  /\ cpc' = "stopped"
                  /\ UNCHANGED panicked
              ELSE
                  /\ pipe' = [pipe EXCEPT !.data = Line(e.Text)]
                  /\ cpc' = "write"
                  /\ UNCHANGED <<writeErr, panicked>>
    /\ UNCHANGED <<plan, kind, Channel, channels, ctor, ctorErr, channelID, selfUserID,
                   broker, sess, delivered, publishes, consumers, rpc, rbuf, rAtClose,
                   rAfterClose, readBytes, lastRead, writes, lastWrite, closes, closeQ,
                   closeErrs, closeRet>>

\* The receive of reader() on the closed, drained channel: `event := <-Events()`
\* takes no second value, so the zero Event comes back; its Type is not
\* "message" and the loop goes round to the same receive.
RecvZero ==
    /\ Live
    /\ cpc = "recv"
    /\ events = <<>>
    /\ sess.ended
    /\ consumed' = IF consumed # <<>> /\ consumed[Len(consumed)] = ZeroEvent
                   THEN consumed ELSE Append(consumed, ZeroEvent)
    /\ UNCHANGED <<plan, kind, Channel, channels, ctor, ctorErr, channelID, selfUserID,
                   broker, sess, events, delivered, publishes, pipe, cpc, consumers,
                   writeErr, rpc, rbuf, rAtClose, rAfterClose, readBytes, lastRead,
                   writes, lastWrite, closes, closeQ, closeErrs, closeRet, panicked>>

\* The blocked pipe Write sees the pipe closed: it returns the bytes taken so
\* far and the error; reader() closes the pipe with that error and returns.
WriteFails ==
    /\ Live
    /\ cpc = "write"
    /\ pipe.done
    /\ pipe' = [PipeCloseWrite(pipe, WriteCloseError(pipe)) EXCEPT !.data = <<>>]
    /\ writeErr' = WriteCloseError(pipe)
    /\ cpc' = "stopped"
    /\ UNCHANGED <<plan, kind, Channel, channels, ctor, ctorErr, channelID, selfUserID,
                   broker, sess, events, delivered, consumed, publishes, consumers,
                   rpc, rbuf, rAtClose, rAfterClose, readBytes, lastRead, writes,
                   lastWrite, closes, closeQ, closeErrs, closeRet, panicked>>

\* ---------------------------------------------------------------------- Read

\* A Close call has returned.
CloseReturned == closes > 0 /\ closeQ = <<>> /\ panicked = Nil

\* Reader.Read / Slack.Read of caller t.  Slack.Read runs initRead first:
\* with readPipeWriter still nil the caller goes on to make the pipe (the test
\* and the assignment are separate steps, nothing serialises callers).
\* Otherwise the call enters the pipe's read: a pipe already closed returns at
\* once, an open one blocks.
ReadBegin(t, n) ==
    /\ Live
    /\ HasReader(kind)
    /\ t <= plan.readers
    /\ rpc[t] = "idle"
    /\ IF kind = "Slack" /\ ~pipe.made
       THEN /\ rpc' = [rpc EXCEPT ![t] = "init"]
            /\ rbuf' = [rbuf EXCEPT ![t] = n]
            /\ UNCHANGED lastRead
       ELSE IF pipe.done
       THEN /\ lastRead' = [n |-> 0, err |-> ReadCloseError(pipe), atClose |-> FALSE,
                            afterClose |-> CloseReturned]
            /\ UNCHANGED <<rpc, rbuf>>
       ELSE /\ rpc' = [rpc EXCEPT ![t] = "blocked"]
            /\ rbuf' = [rbuf EXCEPT ![t] = n]
            /\ UNCHANGED lastRead
    /\ rAtClose' = [rAtClose EXCEPT ![t] = FALSE]
    /\ rAfterClose' = [rAfterClose EXCEPT ![t] = CloseReturned]
    /\ UNCHANGED <<plan, kind, Channel, channels, ctor, ctorErr, channelID, selfUserID,
                   broker, sess, events, delivered, consumed, publishes, pipe, cpc,
                   consumers, writeErr, readBytes, writes, lastWrite, closes, closeQ,
                   closeErrs, closeRet, panicked>>

\* Slack.initRead after the nil test: io.Pipe() is assigned to the fields and
\* go s.reader() started; the caller then blocks in the new pipe's read.
InitReadMake(t) ==
    /\ Live
    /\ rpc[t] = "init"
    /\ pipe' = NewPipe
    /\ cpc' = "recv"
    /\ consumers' = consumers + 1
    /\ rpc' = [rpc EXCEPT ![t] = "blocked"]
    /\ UNCHANGED <<plan, kind, Channel, channels, ctor, ctorErr, channelID, selfUserID,
                   broker, sess, events, delivered, consumed, publishes, writeErr, rbuf,
                   rAtClose, rAfterClose, readBytes, lastRead, writes, lastWrite,
                   closes, closeQ, closeErrs, closeRet, panicked>>

\* A blocked Read meets the blocked pipe Write: copy(b, bw) hands over as
\* many bytes as fit; the Write returns once all its bytes are taken.
ReadTransfer(t) ==
    /\ Live
    /\ rpc[t] = "blocked"
    /\ cpc = "write"
    /\ LET nr == Min(rbuf[t], Len(pipe.data))
       IN  /\ readBytes' = readBytes \o SubSeq(pipe.data, 1, nr)
           /\ pipe' = [pipe EXCEPT !.data = Drop(@, nr)]
           /\ cpc' = IF nr = Len(pipe.data) THEN "recv" ELSE "write"
           /\ lastRead' = [n |-> nr, err |-> Nil, atClose |-> rAtClose[t],
                           afterClose |-> rAfterClose[t]]
    /\ rpc' = [rpc EXCEPT ![t] = "idle"]
    /\ rbuf' = [rbuf EXCEPT ![t] = 0]
    /\ rAtClose' = [rAtClose EXCEPT ![t] = FALSE]
    /\ rAfterClose' = [rAfterClose EXCEPT ![t] = FALSE]
    /\ UNCHANGED <<plan, kind, Channel, channels, ctor, ctorErr, channelID, selfUserID,
                   broker, sess, events, delivered, consumed, publishes, consumers,
                   writeErr, writes, lastWrite, closes, closeQ, closeErrs, closeRet,
                   panicked>>

\* A blocked Read sees the pipe closed.
ReadClosed(t) ==
    /\ Live
    /\ rpc[t] = "blocked"
    /\ pipe.done
    /\ lastRead' = [n |-> 0, err |-> ReadCloseError(pipe), atClose |-> rAtClose[t],
                    afterClose |-> rAfterClose[t]]
    /\ rpc' = [rpc EXCEPT ![t] = "idle"]
    /\ rbuf' = [rbuf EXCEPT ![t] = 0]
    /\ rAtClose' = [rAtClose EXCEPT ![t] = FALSE]
    /\ rAfterClose' = [rAfterClose EXCEPT ![t] = FALSE]
    /\ UNCHANGED <<plan, kind, Channel, channels, ctor, ctorErr, channelID, selfUserID,
                   broker, sess, events, delivered, consumed, publishes, pipe, cpc,
                   consumers, writeErr, readBytes, writes, lastWrite, closes, closeQ,
                   closeErrs, closeRet, panicked>>

\* --------------------------------------------------------------------- Write

RTMMessage(p) == [Type |-> "message", Text |-> p, Channel |-> channelID]

\* (mutant) a Write that reports the payload written although Publish failed
WriteResultAlwaysCounts(p, err) == [p |-> p, n |-> Len(p), err |-> err]

\* What Write returns for the outcome of Publish.
WriteResult(p, err) ==
    IF err # Nil THEN [p |-> p, n |-> 0, err |-> err]
    ELSE [p |-> p, n |-> Len(p), err |-> err]

\* Writer.Write / Slack.Write: one Publish.  (Slack.initWrite finds the broker
\* set by New and does nothing.)  The session may echo a published message on
\* the event stream, tagged with the user it knows this connection by.
Write(p) ==
    /\ Live
    /\ HasWriter(kind)
    /\ writes < plan.writes
    /\ writes' = writes + 1
    /\ \E perr \in {Nil, ErrPublish}, echo \in BOOLEAN :
         /\ publishes' = Append(publishes, [msg |-> RTMMessage(p), err |-> perr])
         /\ lastWrite' = WriteResult(p, perr)
         /\ events' = IF echo /\ perr = Nil /\ ~sess.closed /\ ~sess.ended
                      THEN Append(events, Event("message", TRUE, channelID, ServerUser, p, TRUE))
                      ELSE events
    /\ UNCHANGED <<plan, kind, Channel, channels, ctor, ctorErr, channelID, selfUserID,
                   broker, sess, delivered, consumed, pipe, cpc, consumers, writeErr,
                   rpc, rbuf, rAtClose, rAfterClose, readBytes, lastRead, closes, closeQ,
                   closeErrs, closeRet, panicked>>

\* --------------------------------------------------------------------- Close

\* The calls a Close makes, in order.  ReaderWriter.Close calls Reader.Close,
\* which ends in common.Close, and then common.Close itself.
CloseProgram(k) ==
    CASE k = "Reader" -> <<"pipeReader.Close", "pipeWriter.Close", "common.Close">>
      [] k = "Writer" -> <<"common.Close">>
      [] k = "ReaderWriter" ->
             <<"pipeReader.Close", "pipeWriter.Close", "common.Close", "common.Close">>
      [] k = "Slack" -> <<"pipeReader.Close", "pipeWriter.Close", "common.Close">>

\* (mutant) a Slack.Close without its nil tests
NilGuardedNever(k) == FALSE

\* Slack.Close tests each field against nil before closing it.
NilGuarded(k) == k = "Slack"

\* errset.ErrSet.ReturnValue: nil when every member is nil, else the set.
ErrSetReturnValue(errs) ==
    IF \E i \in 1..Len(errs) : errs[i] # Nil THEN errs ELSE <<>>

\* What Close returns, given the results of its broker.Close calls: <<>> is
\* nil.  Slack.Close drops the result and returns nil.
CloseResult(k, errs) ==
    CASE k = "ReaderWriter" -> ErrSetReturnValue(errs)
      [] k = "Slack" -> <<>>
      [] OTHER -> IF errs[1] = Nil THEN <<>> ELSE <<errs[1]>>

CloseBegin ==
    /\ Live
    /\ closeQ = <<>>
    /\ closes < plan.closes
    /\ closes' = closes + 1
    /\ closeQ' = CloseProgram(kind)
    /\ closeErrs' = <<>>
    /\ rAtClose' = [t \in Callers |-> rpc[t] = "blocked"]
    /\ UNCHANGED <<plan, kind, Channel, channels, ctor, ctorErr, channelID, selfUserID,
                   broker, sess, events, delivered, consumed, publishes, pipe, cpc,
                   consumers, writeErr, rpc, rbuf, rAfterClose, readBytes, lastRead,
                   writes, lastWrite, closeRet, panicked>>

\* The next call of the running Close; the last one is followed by the return.
CloseStep ==
    /\ Live
    /\ closeQ # <<>>
    /\ closeQ' = Tail(closeQ)
    /\ LET op == Head(closeQ)
       IN  IF op = "common.Close" THEN
               \E r \in (IF sess.closed THEN {Nil, ErrAlreadyClosed} ELSE {Nil, ErrClose}) :
                   /\ sess' = [sess EXCEPT !.closed = TRUE, !.closeCalls = @ + 1]
                   /\ closeErrs' = Append(closeErrs, r)
                   /\ UNCHANGED <<pipe, panicked>>
           ELSE IF pipe.made THEN
               /\ pipe' = IF op = "pipeReader.Close" THEN PipeCloseRead(pipe)
                          ELSE PipeCloseWrite(pipe, Nil)
               /\ UNCHANGED <<sess, closeErrs, panicked>>
           ELSE
               /\ panicked' = IF NilGuarded(kind) THEN Nil ELSE "Close"
               /\ UNCHANGED <<sess, closeErrs, pipe>>
    /\ closeRet' = IF Tail(closeQ) = <<>> /\ panicked' = Nil THEN CloseResult(kind, closeErrs')
                   ELSE closeRet
    /\ UNCHANGED <<plan, kind, Channel, channels, ctor, ctorErr, channelID, selfUserID,
                   broker, events, delivered, consumed, publishes, cpc, consumers,
                   writeErr, rpc, rbuf, rAtClose, rAfterClose, readBytes, lastRead,
                   writes, lastWrite, closes>>

Next ==
    \/ Construct
    \/ \E e \in InboundEvents : Deliver(e)
    \/ StreamEnds
    \/ ReaderLoop
    \/ RecvZero
    \/ WriteFails
    \/ \E t \in Callers, n \in 0..MaxBuf : ReadBegin(t, n)
    \/ \E t \in Callers : InitReadMake(t)
    \/ \E t \in Callers : ReadTransfer(t)
    \/ \E t \in Callers : ReadClosed(t)
    \/ \E p \in Payloads : Write(p)
    \/ CloseBegin
    \/ CloseStep

Spec == Init /\ [][Next]_vars

\* A goroutine that can run is run: the reader() goroutine, a Read woken by
\* the pipe, a caller inside initRead and a Close that has begun take their
\* next step.  Nothing obliges the session to deliver or the caller to call.
Fairness ==
    /\ WF_vars(ReaderLoop)
    /\ WF_vars(RecvZero)
    /\ WF_vars(WriteFails)
    /\ WF_vars(CloseStep)
    /\ \A t \in Callers :
         /\ WF_vars(InitReadMake(t))
         /\ WF_vars(ReadTransfer(t))
         /\ WF_vars(ReadClosed(t))

FairSpec == Spec /\ Fairness

\* ==================================================================== claims

IsPrefix(a, b) == Len(a) <= Len(b) /\ SubSeq(b, 1, Len(a)) = a

\* The events the specification says reach the reader: "message" events of
\* the bound channel from a user other than self.
SpecAccepts(e) ==
    e.Type = "message" /\ e.ok /\ e.Channel = channelID /\ e.User # selfUserID

\* The events the specification says are filtered.
SpecFilters(e) ==
    \/ e.Type # "message"
    \/ e.ok /\ e.Channel # channelID
    \/ e.ok /\ e.User = selfUserID

\* text and one newline for each accepted event, in arrival order
RECURSIVE ExpectedBytes(_)
ExpectedBytes(evs) ==
    IF evs = <<>> THEN <<>>
    ELSE (IF SpecAccepts(Head(evs)) THEN Head(evs).Text \o <<NL>> ELSE <<>>)
         \o ExpectedBytes(Tail(evs))

\* the rest of the line the goroutine is handing over
InHand == IF cpc = "write" THEN pipe.data ELSE <<>>

C2_FilteredEventIsDiscarded ==
    [][ (cpc = "recv" /\ events # <<>> /\ consumed' = Append(consumed, Head(events))
         /\ SpecFilters(Head(events)))
        => (pipe' = pipe /\ readBytes' = readBytes /\ cpc' = "recv" /\ panicked' = Nil) ]_vars

C2_Witness ==
    /\ Len(consumed) = 2
    /\ consumed[1].Type = "message"
    /\ SpecFilters(consumed[1])
    /\ SpecAccepts(consumed[2])
    /\ readBytes = consumed[2].Text \o <<NL>>
    /\ ~pipe.done

\* C3: no byte returned by Read comes from the echo of one of the adapter's
\* own Write calls: the bytes read are a prefix of the lines of the accepted
\* events that are not echoes.
C3_WriteNeverReadBack ==
    IsPrefix(readBytes, ExpectedBytes(SelectSeq(consumed, LAMBDA e : ~e.echo)))

\* C4: a Write call makes exactly one Publish, of type "message", with the
\* payload as text and the bound channelID as channel, and returns (len(p),
\* nil) when the Publish succeeds and (0, its error) when it fails.
C4_WriteIsOnePublish ==
    [][ writes' = writes + 1
        => /\ Len(publishes') = Len(publishes) + 1
           /\ SubSeq(publishes', 1, Len(publishes)) = publishes
           /\ LET pub == publishes'[Len(publishes')]
                  p == lastWrite'.p
              IN  /\ pub.msg = [Type |-> "message", Text |-> p, Channel |-> channelID]
                  /\ \/ pub.err = Nil /\ lastWrite'.n = Len(p) /\ lastWrite'.err = Nil
                     \/ pub.err # Nil /\ lastWrite'.n = 0 /\ lastWrite'.err = pub.err ]_vars

C4_Witness ==
    /\ writes = 1
    /\ Len(publishes) = 1
    /\ publishes[1].msg = [Type |-> "message", Text |-> <<"o", "k">>, Channel |-> channelID]
    /\ lastWrite = [p |-> <<"o", "k">>, n |-> 2, err |-> Nil]

\* C5: a Close of a duplex adapter (ReaderWriter, Slack) that has returned has
\* closed the conduit and called the session's close, and its result is an
\* error exactly when one of its close calls failed.
C5_CloseAggregatesErrors ==
    (kind \in {"ReaderWriter", "Slack"} /\ CloseReturned)
    => /\ pipe.made => pipe.done
       /\ Len(closeErrs) >= 1
       /\ (closeRet # <<>>) <=> (\E i \in 1..Len(closeErrs) : closeErrs[i] # Nil)

\* C6: one Close call of a duplex adapter calls the session's close once.
C6_SessionClosedOncePerClose ==
    (kind \in {"ReaderWriter", "Slack"} /\ CloseReturned) => Len(closeErrs) = 1

C8_BlockedReadSeesEOF ==
    (lastRead.atClose /\ lastRead.err # Nil /\ pipe.werr # ErrUnmarshal)
    => (lastRead.n = 0 /\ lastRead.err = EOF)

NameAbsent == \A i \in 1..Len(channels) : channels[i].Name # Channel

\* C9: a constructor that got the channel list and does not find the requested
\* name in it returns the channel-not-found error carrying that name and no
\* adapter; no realtime session has been started or connected, no pipe made
\* and no reader() goroutine started.
C9_UnknownChannelFails ==
    [][ (ctor = "pending" /\ ctor' # "pending" /\ NameAbsent
         /\ ctorErr'.msg # "ChannelsList failed")
        => /\ ctor' = "err"
           /\ ctorErr' = [msg |-> "cannot find channel %s", arg |-> Channel]
           /\ broker' = "nil" /\ channelID' = ""
           /\ ~sess'.started /\ ~sess'.connected
           /\ ~pipe'.made /\ cpc' = "none" /\ consumers' = 0 ]_vars

C9_Witness ==
    /\ ctor = "err"
    /\ channels # <<>>
    /\ NameAbsent
    /\ ctorErr = [msg |-> "cannot find channel %s", arg |-> Channel]
    /\ ~sess.started

\* C10: a failing construction step ends the constructor with a returned
\* error, never a panic, and no binding; a constructor that returns an
\* adapter has a connected session.
C10_ConstructionFailsFast ==
    /\ ctor # "panic"
    /\ ctor = "err" => (ctorErr # NoErr /\ broker = "nil" /\ channelID = "")
    /\ ctor = "ok" => (ctorErr = NoErr /\ broker = "set" /\ sess.connected /\ channelID # "")

\* C11: the reader() goroutine is never held up by the conduit: whenever it is
\* running, no Read is in progress, the conduit is open and an event is
\* queued on the event stream, it can take that event.
C11_ConsumerNeverBlocksOnConduit ==
    (Live /\ cpc \in {"recv", "write"} /\ ~pipe.done /\ events # <<>>
     /\ \A t \in Callers : rpc[t] = "idle")
    => ENABLED ReaderLoop

\* The goroutine has met the end of the event stream: its last receive was on
\* the closed, drained channel.
SawStreamEnd == consumed # <<>> /\ consumed[Len(consumed)] = ZeroEvent

\* C12: once the reader() goroutine has met the end of the event stream, the
\* conduit is closed with an error and the goroutine has stopped, so a
\* blocked Read is released.
C12_StreamEndStopsConsumer ==
    SawStreamEnd
    => /\ cpc = "stopped"
       /\ pipe.done /\ pipe.werr \notin {Nil, EOF}
       /\ \A t \in Callers : rpc[t] = "blocked" => ENABLED ReadClosed(t)

\* The goroutine has received a "message" event that event.Message() could
\* not parse.
HasMalformed == \E i \in 1..Len(consumed) : consumed[i].Type = "message" /\ ~consumed[i].ok

\* C13: a "message" event that fails to parse is skipped and nothing more:
\* as long as no Close is called, after such an event the conduit is still
\* open, the goroutine still runs, and the bytes read, with the line being
\* handed over, are the lines of all accepted events received, the later
\* ones included.
C13_MalformedEventIsSkipped ==
    (HasMalformed /\ closes = 0)
    => /\ panicked = Nil
       /\ ~pipe.done
       /\ cpc \in {"recv", "write"}
       /\ readBytes \o InHand = ExpectedBytes(consumed)

\* C14: an adapter never has more than one reader() goroutine: none before
\* the conduit exists, and exactly one, started once, from then on, whether
\* started by the constructor or by the first Read calls of a Slack.
C14_OneConsumerPerAdapter ==
    /\ consumers <= 1
    /\ consumers = 0 <=> ~pipe.made
    /\ consumers = 0 <=> cpc = "none"

\* C15: once the write of a line into the conduit has failed, the conduit is
\* closed, the goroutine has stopped and takes no further event, and the error
\* a Read of the conduit returns is the error of that write.
C15_FailedAppendStopsConsumer ==
    writeErr # Nil
    => /\ cpc = "stopped"
       /\ ~ENABLED ReaderLoop
       /\ pipe.done
       /\ ReadCloseError(pipe) = writeErr

\* A Read of caller 1 with room for a byte is pending on an adapter no Close
\* was called on, and an accepted message of another connection is queued on
\* the event stream.
ReadAwaitsAccepted ==
    /\ Live
    /\ rpc[1] = "blocked" /\ rbuf[1] >= 1
    /\ closes = 0
    /\ \E i \in 1..Len(events) : Accepted(events[i]) /\ ~events[i].echo

\* C16: under fair scheduling, a Read that is pending when the event stream
\* delivers an accepted message, on an adapter that is not closed, returns
\* with at least one byte (unless a Close is called in between).  A Read with
\* an empty buffer, which the pipe answers with 0 bytes, is left aside.
C16_PendingReadGetsMessage ==
    ReadAwaitsAccepted ~> ((rpc[1] = "idle" /\ lastRead.n >= 1) \/ closes > 0)

\* C17: a constructor that returns an adapter has bound a non-empty channelID,
\* the ID of the first entry of the enumerated list whose name equals the
\* requested name exactly; from then on no step (Read, Write, Close, the
\* goroutine) changes channelID or selfUserID.
C17_ChannelBindingFixed ==
    [][ /\ (ctor = "pending" /\ ctor' = "ok")
           => /\ channelID' # ""
              /\ \E i \in 1..Len(channels) :
                   /\ channels[i].Name = Channel
                   /\ channels[i].ID = channelID'
                   /\ \A j \in 1..(i - 1) : channels[j].Name # Channel
        /\ ctor = "ok" => (channelID' = channelID /\ selfUserID' = selfUserID) ]_vars

C17_Witness ==
    /\ ctor = "ok"
    /\ Channel = "general"
    /\ channelID = "C2"
    /\ selfUserID = ServerUser
    /\ writes >= 1
    /\ CloseReturned
    /\ lastRead.afterClose

\* C18: a Read that begins after a Close has returned does not block, returns
\* zero bytes and a non-nil error, and so returns no text.
C18_ReadAfterCloseFails ==
    /\ \A t \in Callers : rAfterClose[t] => rpc[t] # "blocked"
    /\ lastRead.afterClose => (lastRead.n = 0 /\ lastRead.err # Nil)

\* The step is the next call of a running Close, a close of one pipe end.
ClosesPipeEnd ==
    /\ closeQ # <<>>
    /\ closeQ' = Tail(closeQ)
    /\ Head(closeQ) \in {"pipeReader.Close", "pipeWriter.Close"}

\* The goroutine ends here on a failed write: the conduit has an error.
ConsumerExits == cpc' = "stopped" /\ writeErr' # Nil /\ pipe'.done /\ pipe'.werr # Nil

\* C19: a Close that finds the reader() goroutine running closes the conduit
\* with its first call.  On a conduit a Close has closed, a goroutine inside
\* the write can always take the step in which the write fails; one that is
\* blocked there (no Read is pending to take the line) leaves the write only
\* by closing the conduit with the error and exiting; a goroutine waiting for
\* an event exits the same way on the first accepted message it takes; and no
\* goroutine enters a write.
C19_CloseReleasesConsumer ==
    [][ /\ (ClosesPipeEnd /\ cpc \in {"recv", "write"}) => pipe'.done
        /\ (closes > 0 /\ pipe.done /\ panicked = Nil)
           => /\ cpc = "write" => ENABLED WriteFails
              /\ (cpc = "write" /\ cpc' # "write" /\ \A t \in Callers : rpc[t] # "blocked")
                 => ConsumerExits
              /\ (cpc = "recv" /\ events # <<>> /\ Accepted(Head(events))
                  /\ consumed' = Append(consumed, Head(events))) => ConsumerExits
              /\ cpc' = "write" => cpc = "write" ]_vars

C19_Witness ==
    /\ CloseReturned
    /\ cpc = "stopped"
    /\ writeErr = ErrClosedPipe
    /\ consumed = <<Event("message", TRUE, "C1", "U2", <<"b", "c">>, FALSE)>>
    /\ readBytes = <<"b">>
====
